---- MODULE Spec2Model ----
(***************************************************************************)
(* Model of Codes/Registration.py: est_lin_transf, est_nl_transf,          *)
(* apply_lin_transf and apply_nl_transf.                                    *)
(*                                                                          *)
(* The four functions drive SimpleITK objects (ImageRegistrationMethod,     *)
(* ResampleImageFilter).  Each statement of a function is one action; a     *)
(* library call is modelled by the documented effect of that call on the    *)
(* object it is invoked on.  Where the outcome of a library call on an      *)
(* unusual input is not fixed by the call's contract, the model lets the    *)
(* call either succeed or raise.  The source has no raise and no except, so *)
(* every error that leaves a function is the library's RuntimeError.        *)
(*                                                                          *)
(* Numbers: a spacing is an exact rational <<num, den>> with den > 0.       *)
(***************************************************************************)
EXTENDS Integers, Sequences, FiniteSets, TLC

VARIABLES call, pc, reg, rm, grid, init, opt, ret, out,
          images, xfms, acall, apc, res, aret, pre

evars == <<call, pc, reg, rm, grid, init, opt, ret, out>>
avars == <<images, xfms, acall, apc, res, aret, pre>>
vars == <<call, pc, reg, rm, grid, init, opt, ret, out,
          images, xfms, acall, apc, res, aret, pre>>

(***************************************************************************)
(* Bounds of the model.                                                     *)
(***************************************************************************)
\* wall-clock readings a call can observe are 0..MaxClock
MaxClock == 1
\* the model follows at most this many of the sample points the metric draws
MaxSamples == 2

Procs == {1, 2}

Min(a, b) == IF a < b THEN a ELSE b
Max(a, b) == IF a > b THEN a ELSE b

RECURSIVE Product(_)
Product(s) == IF Len(s) = 0 THEN 1 ELSE Head(s) * Product(Tail(s))

\* Python's int(): truncation toward zero of the rational a / b, b > 0
PyInt(a, b) == IF a >= 0 THEN a \div b ELSE -((-a) \div b)

(***************************************************************************)
(* Images as the estimation functions see them: dimension, size, spacing    *)
(* and pixel type.  NumVoxels is the number of grid locations.              *)
(***************************************************************************)
GetDimension(im) == im.dim
GetSize(im) == im.size
GetSpacing(im) == im.spacing
NumVoxels(im) == Product(im.size)

Image(sz, sp, pt) == [dim |-> Len(sz), size |-> sz, spacing |-> sp, ptype |-> pt]

Degenerate(im) ==
    \E i \in 1..im.dim : im.size[i] = 0 \/ im.spacing[i][1] <= 0

\* a mask is present or absent (None); a present mask is nonzero on the
\* linear voxel indices lo..hi-1 of the reference grid
NoMask == [present |-> FALSE, lo |-> 0, hi |-> 0]
Mask(l, h) == [present |-> TRUE, lo |-> l, hi |-> h]
MaskNonzero(m, v) == m.lo <= v /\ v < m.hi

(***************************************************************************)
(* Transforms.                                                              *)
(***************************************************************************)
SplineOrder == 3

NoTransform ==
    [kind |-> "none", dim |-> 0, mesh |-> <<>>, nparams |-> 0,
     fitted |-> {}, iterations |-> 0]

AffineTransform(d) ==
    [kind |-> "affine", dim |-> d, mesh |-> <<>>, nparams |-> d * (d + 1),
     fitted |-> {}, iterations |-> 0]

\* the centred initialisation keeps kind, dimension and parameter count
CenteredTransformInitializer(ref, mov, t) == t

BSplineTransformInitializer(ref, mesh) ==
    [kind |-> "bspline", dim |-> ref.dim, mesh |-> mesh,
     nparams |-> ref.dim * Product([i \in 1..Len(mesh) |-> mesh[i] + SplineOrder]),
     fitted |-> {}, iterations |-> 0]

(***************************************************************************)
(* est_nl_transf, lines 66-71: the control-point grid.                      *)
(***************************************************************************)
GridPhysicalSpacing == 50
MinGridSize == 3

\* the same without the + 0.5: truncation instead of rounding
GridSizeAxisTruncated(size, sp) ==
    PyInt(size * sp[1], GridPhysicalSpacing * sp[2])

\* int(size * spacing / 50.0 + 0.5) for spacing = num / den
GridSizeAxis(size, sp) ==
    PyInt(2 * size * sp[1] + GridPhysicalSpacing * sp[2],
          2 * GridPhysicalSpacing * sp[2])

ClampGrid(g) == Max(MinGridSize, g)

GridSize(im) ==
    [i \in 1..GetDimension(im) |->
        ClampGrid(GridSizeAxis(GetSize(im)[i], GetSpacing(im)[i]))]

MeshSize(gs) == [i \in 1..Len(gs) |-> gs[i] - 1]

(***************************************************************************)
(* ImageRegistrationMethod objects.                                         *)
(***************************************************************************)
NewMethod ==
    [metric |-> "unset", bins |-> 0, strategy |-> "NONE",
     percentage |-> <<1, 1>>, seed |-> "unset", mask |-> NoMask,
     interpolator |-> "unset", optimizer |-> "unset",
     numberOfIterations |-> 0, maxEvaluations |-> 0, scales |-> "unset",
     initial |-> NoTransform, inPlace |-> TRUE,
     stop |-> "none", iteration |-> 0]

SetMetricAsMeanSquares(m) == [m EXCEPT !.metric = "MeanSquares", !.bins = 0]

HistogramBins == 50
SetMetricAsMattesMutualInformation(m) ==
    [m EXCEPT !.metric = "MattesMutualInformation", !.bins = HistogramBins]

SetMetricSamplingStrategy(m) == [m EXCEPT !.strategy = "RANDOM"]

\* SetMetricSamplingPercentage(0.01): no seed argument is passed, so the
\* sampling seed keeps its default, the wall clock
SamplingSeed == "WallClock"
SetMetricSamplingPercentage(m) ==
    [m EXCEPT !.percentage = <<1, 100>>, !.seed = SamplingSeed]

\* the mask argument dropped
SetMetricFixedMaskDropped(m, mask) == m

\* if mask is not None: SetMetricFixedMask(mask)
SetMetricFixedMask(m, mask) ==
    IF mask.present THEN [m EXCEPT !.mask = mask] ELSE m

SetInterpolator(m) == [m EXCEPT !.interpolator = "sitkLinear"]

GDNumberOfIterations == 500
SetOptimizerAsGradientDescent(m) ==
    [m EXCEPT !.optimizer = "GradientDescent",
              !.numberOfIterations = GDNumberOfIterations,
              !.maxEvaluations = 0]

SetOptimizerScalesFromPhysicalShift(m) == [m EXCEPT !.scales = "PhysicalShift"]

LBFGSBNumberOfIterations == 500
LBFGSBMaximumEvaluations == 500
SetOptimizerAsLBFGSB(m) ==
    [m EXCEPT !.optimizer = "LBFGSB",
              !.numberOfIterations = LBFGSBNumberOfIterations,
              !.maxEvaluations = LBFGSBMaximumEvaluations]

\* SetInitialTransform(t, inPlace=False) / SetInitialTransformAsBSpline(t, inPlace=False)
SetInitialTransform(m, t) == [m EXCEPT !.initial = t, !.inPlace = FALSE]

(***************************************************************************)
(* Metric sampling inside Execute.                                          *)
(***************************************************************************)
\* number of sample points followed: percentage of the grid, capped
SampleCount(m, fixed) ==
    Min(MaxSamples, (NumVoxels(fixed) * m.percentage[1]) \div m.percentage[2])

\* the j-th location drawn by the pseudo-random generator seeded with s,
\* on a grid of n locations
Draw(s, j, n) == ((s * 37 + j * 61 + 5) * (n \div 7 + 1)) % n

Drawn(m, fixed, s) ==
    {Draw(s, j, NumVoxels(fixed)) : j \in 1..SampleCount(m, fixed)}

\* locations that contribute to the metric: inside the fixed mask if one
\* is installed
Samples(m, fixed, s) ==
    {v \in Drawn(m, fixed, s) : m.mask.present => MaskNonzero(m.mask, v)}

IsFloat(pt) == pt = "Float32"

\* est_lin_transf hands sitk.Cast(im, sitkFloat32) to Execute, est_nl_transf
\* hands the images themselves
Cast(im) == [im EXCEPT !.ptype = "Float32"]
FixedOf(c) == IF c.kind = "lin" THEN Cast(c.ref) ELSE c.ref
MovingOf(c) == IF c.kind = "lin" THEN Cast(c.mov) ELSE c.mov

\* inputs Execute rejects before it iterates
ExecuteRejects(m, fixed, moving, s) ==
    \/ fixed.dim # moving.dim
    \/ m.initial.dim # fixed.dim
    \/ ~IsFloat(fixed.ptype) \/ fixed.ptype # moving.ptype
    \/ Samples(m, fixed, s) = {}

(***************************************************************************)
(* The optimizer loop inside Execute.  call.need is the number of           *)
(* iterations after which the convergence test of the optimizer passes on   *)
(* this image pair, call.epi the number of metric evaluations one L-BFGS-B  *)
(* iteration spends on it; both stand for the pixel content of the images.  *)
(***************************************************************************)
Converged(c, o) == o.iter >= c.need

IterationBudgetOffByOne(m, o) == o.iter > m.numberOfIterations

IterationBudgetReached(m, o) == o.iter >= m.numberOfIterations

EvaluationBudgetReached(m, o) ==
    m.optimizer = "LBFGSB" /\ o.evals >= m.maxEvaluations

ShouldStop(m, c, o) ==
    Converged(c, o) \/ IterationBudgetReached(m, o) \/ EvaluationBudgetReached(m, o)

StopCondition(m, c, o) ==
    IF Converged(c, o) THEN "Convergence"
    ELSE IF IterationBudgetReached(m, o) THEN "MaximumIterations"
    ELSE "MaximumEvaluations"

\* the transform Execute returns: a new transform of the initial one's
\* kind and size, fitted on the sampled locations for o.iter iterations
FinalTransform(m, o) ==
    [m.initial EXCEPT !.fitted = IF o.iter = 0 THEN {} ELSE o.samples,
                      !.iterations = o.iter]

\* one optimizer iteration: a GradientDescent iteration evaluates the metric
\* once, an L-BFGS-B iteration c.epi times
IterateOnce(m, c, o) ==
    [o EXCEPT !.iter = @ + 1,
              !.evals = @ + (IF m.optimizer = "LBFGSB" THEN c.epi ELSE 1)]

NoOpt == [seed |-> 0, drawn |-> {}, samples |-> {}, iter |-> 0, evals |-> 0,
          called |-> FALSE, started |-> FALSE, final |-> NoTransform]

NoRet == [status |-> "none", error |-> "", transform |-> NoTransform]
Raise(e) == [status |-> "error", error |-> e, transform |-> NoTransform]
Ok(t) == [status |-> "ok", error |-> "", transform |-> t]

LibraryError == "RuntimeError"

\* the seed Execute gives the sampler: a reading of the wall clock when the
\* method's seed is the wall-clock default
SeedValues(m) == IF m.seed = "WallClock" THEN 0..MaxClock ELSE {0}

\* one method object created once and shared by all calls
AllocateShared(heap) ==
    IF Len(heap) = 0 THEN [heap |-> <<NewMethod>>, id |-> 1]
    ELSE [heap |-> heap, id |-> 1]

\* sitk.ImageRegistrationMethod(): a new object, private to the call
Allocate(heap) == [heap |-> Append(heap, NewMethod), id |-> Len(heap) + 1]

(***************************************************************************)
(* Actions of est_lin_transf and est_nl_transf, one per statement.          *)
(* p is the call; call[p].kind is "lin" or "nl".                            *)
(***************************************************************************)
Configure(p, m) == rm' = [rm EXCEPT ![reg[p]] = m]

Goto(p, l) == pc' = [pc EXCEPT ![p] = l]

Fail(p) ==
    /\ ret' = [ret EXCEPT ![p] = Raise(LibraryError)]
    /\ Goto(p, "done")

NewRegistrationMethod(p) ==
    /\ pc[p] = "new"
    /\ LET a == Allocate(rm) IN
         /\ rm' = a.heap
         /\ reg' = [reg EXCEPT ![p] = a.id]
    /\ Goto(p, "metric")
    /\ UNCHANGED <<call, grid, init, opt, ret, out, avars>>

LinSetMetric(p) ==
    /\ pc[p] = "metric" /\ call[p].kind = "lin"
    /\ Configure(p, SetMetricAsMeanSquares(rm[reg[p]]))
    /\ Goto(p, "strategy")
    /\ UNCHANGED <<call, reg, grid, init, opt, ret, out, avars>>

NlSetMetric(p) ==
    /\ pc[p] = "metric" /\ call[p].kind = "nl"
    /\ Configure(p, SetMetricAsMattesMutualInformation(rm[reg[p]]))
    /\ Goto(p, "strategy")
    /\ UNCHANGED <<call, reg, grid, init, opt, ret, out, avars>>

SetSamplingStrategy(p) ==
    /\ pc[p] = "strategy"
    /\ Configure(p, SetMetricSamplingStrategy(rm[reg[p]]))
    /\ Goto(p, "percentage")
    /\ UNCHANGED <<call, reg, grid, init, opt, ret, out, avars>>

SetSamplingPercentage(p) ==
    /\ pc[p] = "percentage"
    /\ Configure(p, SetMetricSamplingPercentage(rm[reg[p]]))
    /\ Goto(p, "mask")
    /\ UNCHANGED <<call, reg, grid, init, opt, ret, out, avars>>

SetFixedMask(p) ==
    /\ pc[p] = "mask"
    /\ Configure(p, SetMetricFixedMask(rm[reg[p]], call[p].mask))
    /\ Goto(p, "interp")
    /\ UNCHANGED <<call, reg, grid, init, opt, ret, out, avars>>

SetInterp(p) ==
    /\ pc[p] = "interp"
    /\ Configure(p, SetInterpolator(rm[reg[p]]))
    /\ Goto(p, "optimizer")
    /\ UNCHANGED <<call, reg, grid, init, opt, ret, out, avars>>

LinSetOptimizer(p) ==
    /\ pc[p] = "optimizer" /\ call[p].kind = "lin"
    /\ Configure(p, SetOptimizerAsGradientDescent(rm[reg[p]]))
    /\ Goto(p, "scales")
    /\ UNCHANGED <<call, reg, grid, init, opt, ret, out, avars>>

LinSetScales(p) ==
    /\ pc[p] = "scales"
    /\ Configure(p, SetOptimizerScalesFromPhysicalShift(rm[reg[p]]))
    /\ Goto(p, "initlin")
    /\ UNCHANGED <<call, reg, grid, init, opt, ret, out, avars>>

NlSetOptimizer(p) ==
    /\ pc[p] = "optimizer" /\ call[p].kind = "nl"
    /\ Configure(p, SetOptimizerAsLBFGSB(rm[reg[p]]))
    /\ Goto(p, "grid")
    /\ UNCHANGED <<call, reg, grid, init, opt, ret, out, avars>>

\* line 27: the initializer rejects images of different dimension; on a
\* degenerate reference image it may raise or return
LinInitOk(p) ==
    /\ pc[p] = "initlin"
    /\ GetDimension(call[p].ref) = GetDimension(call[p].mov)
    /\ init' = [init EXCEPT ![p] =
          CenteredTransformInitializer(call[p].ref, call[p].mov,
                                       AffineTransform(GetDimension(call[p].ref)))]
    /\ Goto(p, "setinit")
    /\ UNCHANGED <<call, reg, rm, grid, opt, ret, out, avars>>

LinInitRaise(p) ==
    /\ pc[p] = "initlin"
    /\ \/ GetDimension(call[p].ref) # GetDimension(call[p].mov)
       \/ Degenerate(call[p].ref)
    /\ Fail(p)
    /\ UNCHANGED <<call, reg, rm, grid, init, opt, out, avars>>

\* lines 66-71
NlComputeGrid(p) ==
    /\ pc[p] = "grid"
    /\ grid' = [grid EXCEPT ![p] = MeshSize(GridSize(call[p].ref))]
    /\ Goto(p, "initnl")
    /\ UNCHANGED <<call, reg, rm, init, opt, ret, out, avars>>

\* line 72: only the reference image and the mesh size are passed
NlInitOk(p) ==
    /\ pc[p] = "initnl"
    /\ init' = [init EXCEPT ![p] = BSplineTransformInitializer(call[p].ref, grid[p])]
    /\ Goto(p, "setinit")
    /\ UNCHANGED <<call, reg, rm, grid, opt, ret, out, avars>>

NlInitRaise(p) ==
    /\ pc[p] = "initnl"
    /\ Degenerate(call[p].ref)
    /\ Fail(p)
    /\ UNCHANGED <<call, reg, rm, grid, init, opt, out, avars>>

SetInitial(p) ==
    /\ pc[p] = "setinit"
    /\ Configure(p, SetInitialTransform(rm[reg[p]], init[p]))
    /\ Goto(p, "exec")
    /\ UNCHANGED <<call, reg, grid, init, opt, ret, out, avars>>

\* lines 31-32 / 76: Execute checks its inputs, draws the metric samples
\* and starts the optimizer
ExecuteBegin(p) ==
    /\ pc[p] = "exec"
    /\ \E s \in SeedValues(rm[reg[p]]) :
         LET m == rm[reg[p]]
             fixed == FixedOf(call[p])
             moving == MovingOf(call[p])
         IN /\ ~ExecuteRejects(m, fixed, moving, s)
            /\ opt' = [opt EXCEPT ![p] =
                  [seed |-> s, drawn |-> Drawn(m, fixed, s),
                   samples |-> Samples(m, fixed, s), iter |-> 0, evals |-> 0,
                   called |-> TRUE, started |-> TRUE, final |-> NoTransform]]
    /\ Goto(p, "loop")
    /\ UNCHANGED <<call, reg, rm, grid, init, ret, out, avars>>

ExecuteRaise(p) ==
    /\ pc[p] = "exec"
    /\ \E s \in SeedValues(rm[reg[p]]) :
         \/ ExecuteRejects(rm[reg[p]], FixedOf(call[p]), MovingOf(call[p]), s)
         \/ Degenerate(call[p].ref)
    /\ opt' = [opt EXCEPT ![p].called = TRUE]
    /\ Fail(p)
    /\ UNCHANGED <<call, reg, rm, grid, init, out, avars>>

OptimizerIterate(p) ==
    /\ pc[p] = "loop"
    /\ ~ShouldStop(rm[reg[p]], call[p], opt[p])
    /\ opt' = [opt EXCEPT ![p] = IterateOnce(rm[reg[p]], call[p], opt[p])]
    /\ UNCHANGED <<call, pc, reg, rm, grid, init, ret, out, avars>>

\* Execute returns: the method keeps the stop condition and the iteration
OptimizerStop(p) ==
    /\ pc[p] = "loop"
    /\ ShouldStop(rm[reg[p]], call[p], opt[p])
    /\ opt' = [opt EXCEPT ![p].final = FinalTransform(rm[reg[p]], opt[p])]
    /\ Configure(p, [rm[reg[p]] EXCEPT
                        !.stop = StopCondition(rm[reg[p]], call[p], opt[p]),
                        !.iteration = opt[p].iter])
    /\ Goto(p, "verbose")
    /\ UNCHANGED <<call, reg, grid, init, ret, out, avars>>

\* lines 34-39 / 78-84
Diagnostics(c, m) ==
    IF c.kind = "lin"
    THEN <<[text |-> "Affine registration:", num |-> 0],
           [text |-> m.stop, num |-> 0]>>
    ELSE <<[text |-> "Non-linear registration:", num |-> 0],
           [text |-> m.stop, num |-> 0],
           [text |-> "Final Iteration", num |-> m.iteration]>>

Verbose(p) ==
    /\ pc[p] = "verbose"
    /\ out' = [out EXCEPT ![p] =
          IF call[p].verbose THEN Diagnostics(call[p], rm[reg[p]]) ELSE <<>>]
    /\ Goto(p, "return")
    /\ UNCHANGED <<call, reg, rm, grid, init, opt, ret, avars>>

\* return final_transform
ReturnTransform(p) ==
    /\ pc[p] = "return"
    /\ ret' = [ret EXCEPT ![p] = Ok(opt[p].final)]
    /\ Goto(p, "done")
    /\ UNCHANGED <<call, reg, rm, grid, init, opt, out, avars>>

Step(p) ==
    \/ NewRegistrationMethod(p) \/ LinSetMetric(p) \/ NlSetMetric(p)
    \/ SetSamplingStrategy(p) \/ SetSamplingPercentage(p) \/ SetFixedMask(p)
    \/ SetInterp(p) \/ LinSetOptimizer(p) \/ LinSetScales(p)
    \/ NlSetOptimizer(p) \/ LinInitOk(p) \/ LinInitRaise(p)
    \/ NlComputeGrid(p) \/ NlInitOk(p) \/ NlInitRaise(p) \/ SetInitial(p)
    \/ ExecuteBegin(p) \/ ExecuteRaise(p) \/ OptimizerIterate(p)
    \/ OptimizerStop(p) \/ Verbose(p) \/ ReturnTransform(p)

NextEst == \E p \in Procs : Step(p)

(***************************************************************************)
(* apply_lin_transf / apply_nl_transf.  Images here are planar and carry    *)
(* their pixels; coordinates are kept doubled so that half a voxel is an    *)
(* integer.  A voxel index is a pair <<i, j>>, 0-based.                     *)
(***************************************************************************)
Indices(size) == (0..(size[1] - 1)) \X (0..(size[2] - 1))

PixelImage(sz, sp, org, dir, px) ==
    [size |-> sz, spacing |-> sp, origin |-> org, direction |-> dir, pixels |-> px]

\* a transform as the resampler uses it: points inside the box lo2..hi2
\* (doubled physical coordinates) are moved by t, the others are left in
\* place; an affine transform moves every point, a B-spline transform only
\* the points of its domain
AffineMap(t) ==
    [kind |-> "affine", dim |-> 2, t |-> t, bounded |-> FALSE,
     lo2 |-> <<0, 0>>, hi2 |-> <<0, 0>>]
BSplineMap(t, lo, hi) ==
    [kind |-> "bspline", dim |-> 2, t |-> t, bounded |-> TRUE,
     lo2 |-> lo, hi2 |-> hi]

InDomain(x, p2) ==
    ~x.bounded \/ \A a \in 1..2 : x.lo2[a] <= p2[a] /\ p2[a] < x.hi2[a]

TransformPoint(x, p2) ==
    IF InDomain(x, p2) THEN [a \in 1..2 |-> p2[a] + 2 * x.t[a]] ELSE p2

\* sitk.ResampleImageFilter()
NewResampler ==
    [size |-> <<0, 0>>, spacing |-> <<1, 1>>, origin |-> <<0, 0>>,
     direction |-> <<1, 1>>, transform |-> AffineMap(<<0, 0>>),
     interpolator |-> "sitkNearestNeighbor", default |-> 0]

\* only the size taken from the image
SetReferenceImageSizeOnly(r, im) == [r EXCEPT !.size = im.size]

\* SetReferenceImage(im): output size, spacing, origin and direction
SetReferenceImage(r, im) ==
    [r EXCEPT !.size = im.size, !.spacing = im.spacing,
              !.origin = im.origin, !.direction = im.direction]

SetTransform(r, x) == [r EXCEPT !.transform = x]

SetInterpolatorLinear(r) == [r EXCEPT !.interpolator = "sitkLinear"]

DefaultPixelValue == 0

\* another fill value
SetDefaultPixelValueWhite(r) == [r EXCEPT !.default = 255]

SetDefaultPixelValue(r) == [r EXCEPT !.default = DefaultPixelValue]

\* doubled physical coordinates of the centre of voxel idx of grid g
IndexToPoint2(g, idx) ==
    [a \in 1..2 |-> 2 * g.origin[a] + 2 * g.direction[a] * g.spacing[a] * idx[a]]

\* doubled continuous index of the point p2 in image im
PointToIndex2(im, p2) ==
    [a \in 1..2 |-> (im.direction[a] * (p2[a] - 2 * im.origin[a])) \div im.spacing[a]]

\* the continuous index lies in the buffer: -0.5 <= c < size - 0.5
InsideBuffer(im, c2) ==
    \A a \in 1..2 : -1 <= c2[a] /\ c2[a] < 2 * im.size[a] - 1

Clamp(i, n) == IF i < 0 THEN 0 ELSE IF i > n - 1 THEN n - 1 ELSE i

\* the two voxels around a continuous index on one axis, kept in the buffer
Neighbours(c2, n) ==
    IF c2 % 2 = 0 THEN <<Clamp(c2 \div 2, n), Clamp(c2 \div 2, n)>>
    ELSE <<Clamp((c2 - 1) \div 2, n), Clamp((c2 + 1) \div 2, n)>>

\* linear interpolation at a continuous index whose parts are whole or half
Linear(im, c2) ==
    LET nx == Neighbours(c2[1], im.size[1])
        ny == Neighbours(c2[2], im.size[2])
    IN (im.pixels[<<nx[1], ny[1]>>] + im.pixels[<<nx[1], ny[2]>>]
        + im.pixels[<<nx[2], ny[1]>>] + im.pixels[<<nx[2], ny[2]>>]) \div 4

\* where output voxel idx of resampler r reads in image im (doubled index)
SourceIndex2(r, im, idx) ==
    PointToIndex2(im, TransformPoint(r.transform, IndexToPoint2(r, idx)))

Resample(r, im) ==
    PixelImage(r.size, r.spacing, r.origin, r.direction,
        [idx \in Indices(r.size) |->
            IF InsideBuffer(im, SourceIndex2(r, im, idx))
            THEN Linear(im, SourceIndex2(r, im, idx))
            ELSE r.default])

\* the output written over the input image
ResampleExecuteInPlace(heap, r, id) ==
    [heap |-> [heap EXCEPT ![id] = Resample(r, heap[id])], id |-> id]

\* resampler.Execute(im): a new image
ResampleExecute(heap, r, id) ==
    [heap |-> Append(heap, Resample(r, heap[id])), id |-> Len(heap) + 1]

NoImage == [status |-> "none", id |-> 0]

ANewResampler ==
    /\ apc = "new"
    /\ res' = NewResampler
    /\ apc' = "reference"
    /\ UNCHANGED <<images, xfms, acall, aret, pre, evars>>

ASetReferenceImage ==
    /\ apc = "reference"
    /\ res' = SetReferenceImage(res, images[acall.im])
    /\ apc' = "transform"
    /\ UNCHANGED <<images, xfms, acall, aret, pre, evars>>

ASetTransform ==
    /\ apc = "transform"
    /\ res' = SetTransform(res, xfms[acall.xfm])
    /\ apc' = "interp"
    /\ UNCHANGED <<images, xfms, acall, aret, pre, evars>>

ASetInterpolator ==
    /\ apc = "interp"
    /\ res' = SetInterpolatorLinear(res)
    /\ apc' = "default"
    /\ UNCHANGED <<images, xfms, acall, aret, pre, evars>>

ASetDefaultPixelValue ==
    /\ apc = "default"
    /\ res' = SetDefaultPixelValue(res)
    /\ apc' = "exec"
    /\ UNCHANGED <<images, xfms, acall, aret, pre, evars>>

\* Execute on a transform of the image's dimension
AExecute ==
    /\ apc = "exec"
    /\ res.transform.dim = 2
    /\ LET e == ResampleExecute(images, res, acall.im) IN
         /\ images' = e.heap
         /\ aret' = [status |-> "pending", id |-> e.id]
    /\ apc' = "return"
    /\ UNCHANGED <<xfms, acall, res, pre, evars>>

\* Execute rejects a transform of another dimension
AExecuteRaise ==
    /\ apc = "exec"
    /\ res.transform.dim # 2
    /\ aret' = [status |-> "error", id |-> 0]
    /\ apc' = "done"
    /\ UNCHANGED <<images, xfms, acall, res, pre, evars>>

AReturn ==
    /\ apc = "return"
    /\ aret' = [aret EXCEPT !.status = "ok"]
    /\ apc' = "done"
    /\ UNCHANGED <<images, xfms, acall, res, pre, evars>>

NextApply ==
    \/ ANewResampler \/ ASetReferenceImage \/ ASetTransform
    \/ ASetInterpolator \/ ASetDefaultPixelValue
    \/ AExecute \/ AExecuteRaise \/ AReturn

(***************************************************************************)
(* Inputs.                                                                  *)
(***************************************************************************)
One == <<1, 1>>

Ref2D == Image(<<10, 10>>, <<One, One>>, "Float32")
Ref3D == Image(<<256, 256, 256>>, <<One, One, One>>, "Float32")
\* sitk.Image(): size (0, 0), 8-bit unsigned pixels
RefEmpty == Image(<<0, 0>>, <<One, One>>, "UInt8")
RefNeg == Image(<<20, 10>>, <<<<-1, 1>>, One>>, "Float32")
RefInt == Image(<<10, 10>>, <<One, One>>, "UInt8")

Mov2D == Image(<<10, 10>>, <<One, One>>, "Float32")
Mov3D == Image(<<8, 8, 8>>, <<One, One, One>>, "Float32")
MovInt == Image(<<10, 10>>, <<One, One>>, "UInt8")

Refs == {Ref2D, Ref3D, RefEmpty, RefNeg, RefInt}
Movs == {Mov2D, Mov3D, MovInt}

\* no mask, a mask on the first half of the reference grid, one on the second
MasksFor(ref) ==
    {NoMask, Mask(0, NumVoxels(ref) \div 2),
     Mask(NumVoxels(ref) \div 2, NumVoxels(ref))}

Call(k, r, m, mk, v, n, e) ==
    [kind |-> k, ref |-> r, mov |-> m, mask |-> mk, verbose |-> v,
     need |-> n, epi |-> e]

IdleCall == Call("none", RefEmpty, MovInt, NoMask, FALSE, 0, 1)

BaseCalls ==
    {Call(k, r, m, mk, v, n, e) :
        k \in {"lin", "nl"}, r \in Refs, m \in Movs,
        mk \in UNION {MasksFor(r2) : r2 \in Refs}, v \in BOOLEAN,
        n \in {0, 3, 600}, e \in {1, 2}}

ValidCall(c) ==
    /\ c.mask \in MasksFor(c.ref)
    /\ c.kind = "lin" => c.epi = 1

GridExtents == {0, 10, 124, 125, 175, 225, 256, 300}
GridSpacings == {One, <<1, 2>>, <<5, 2>>, <<-1, 1>>}

GridRefs ==
    {Image(<<a, b>>, <<sa, sb>>, "Float32") :
        a \in GridExtents, b \in GridExtents,
        sa \in GridSpacings, sb \in GridSpacings}
    \cup
    {Image(<<a, b, c>>, <<sa, sb, sc>>, "Float32") :
        a \in {10, 256}, b \in {10, 256}, c \in {10, 256},
        sa \in {One, <<5, 2>>}, sb \in {One, <<5, 2>>}, sc \in {One, <<5, 2>>}}

GridCalls ==
    {Call("nl", r, IF r.dim = 2 THEN Mov2D ELSE Mov3D, NoMask, FALSE, 0, 1) :
        r \in GridRefs}

EstCalls == {c \in BaseCalls : ValidCall(c)} \cup GridCalls

InitLocals ==
    /\ reg = [p \in Procs |-> 0]
    /\ rm = <<>>
    /\ grid = [p \in Procs |-> <<>>]
    /\ init = [p \in Procs |-> NoTransform]
    /\ opt = [p \in Procs |-> NoOpt]
    /\ ret = [p \in Procs |-> NoRet]
    /\ out = [p \in Procs |-> <<>>]

ApplyIdle ==
    /\ images = <<>>
    /\ xfms = <<>>
    /\ acall = 0
    /\ apc = "idle"
    /\ res = 0
    /\ aret = 0
    /\ pre = 0

\* one estimation call
InitEst ==
    /\ \E c \in EstCalls : call = [p \in Procs |-> IF p = 1 THEN c ELSE IdleCall]
    /\ pc = [p \in Procs |-> IF p = 1 THEN "new" ELSE "idle"]
    /\ InitLocals
    /\ ApplyIdle

SpecEst == InitEst /\ [][NextEst]_vars

\* the call runs in the calling thread until it returns
SpecEstFair == SpecEst /\ \A p \in Procs : WF_vars(Step(p))

\* two estimation calls running concurrently
ConcCalls ==
    {Call("lin", Ref2D, Mov2D, NoMask, FALSE, 2, 1),
     Call("lin", Ref2D, Mov3D, Mask(0, 50), TRUE, 0, 1),
     Call("lin", RefInt, MovInt, Mask(50, 100), TRUE, 1, 1),
     Call("nl", Ref2D, Mov2D, Mask(0, 50), TRUE, 1, 2),
     Call("nl", Ref3D, Mov3D, NoMask, FALSE, 2, 1),
     Call("nl", RefEmpty, Mov2D, NoMask, FALSE, 0, 1)}

InitConc ==
    /\ call \in [Procs -> ConcCalls]
    /\ pc = [p \in Procs |-> "new"]
    /\ InitLocals
    /\ ApplyIdle

SpecConc == InitConc /\ [][NextEst]_vars

(***************************************************************************)
(* Properties of the estimation functions.                                  *)
(***************************************************************************)
Active(p) == call[p].kind # "none"

AfterGrid(p) ==
    pc[p] \in {"initnl", "setinit", "exec", "loop", "verbose", "return", "done"}

\* nearest integer of a / b (b > 0), halves upward
RoundHalfUp(a, b) == (2 * a + b) \div (2 * b)

CellCount(size, sp) ==
    LET r == RoundHalfUp(size * sp[1], 50 * sp[2]) IN IF r < 3 THEN 3 ELSE r

\* C1: in est_nl_transf, on every axis the mesh size computed and passed to
\* the B-spline initializer is max(3, round(size * spacing / 50)) - 1; 256
\* voxels at spacing 1 give mesh 4, 10 voxels at spacing 1 give mesh 2, and
\* no axis has fewer than 3 cells.
C1_GridSizing ==
    \A p \in Procs :
        (call[p].kind = "nl" /\ AfterGrid(p)) =>
            /\ Len(grid[p]) = call[p].ref.dim
            /\ \A i \in 1..call[p].ref.dim :
                 LET sz == call[p].ref.size[i]
                     sp == call[p].ref.spacing[i]
                 IN /\ grid[p][i] = CellCount(sz, sp) - 1
                    /\ grid[p][i] >= 2
                    /\ (sz = 256 /\ sp = <<1, 1>>) => grid[p][i] = 4
                    /\ (sz = 10 /\ sp = <<1, 1>>) => grid[p][i] = 2
            /\ init[p].kind = "bspline" => init[p].mesh = grid[p]

C1_Witness ==
    \E p \in Procs :
        /\ call[p].kind = "nl" /\ init[p].kind = "bspline"
        /\ call[p].ref.size = <<256, 10>>
        /\ call[p].ref.spacing = <<<<1, 1>>, <<1, 1>>>>
        /\ init[p].mesh = <<4, 2>>

\* C5: a call whose reference and moving images differ in dimension ends
\* with InvalidInputError, raised before Execute is called.
C5_DimensionMismatch ==
    \A p \in Procs :
        (Active(p) /\ pc[p] = "done" /\ call[p].ref.dim # call[p].mov.dim) =>
            /\ ret[p].status = "error"
            /\ ret[p].error = "InvalidInputError"
            /\ ~opt[p].called

\* C6: a call on a reference image with zero or negative spacing or an empty
\* extent ends with InvalidGeometryError at transform construction, and
\* est_nl_transf produces no control-point grid for it.
C6_DegenerateGeometry ==
    \A p \in Procs :
        (Active(p) /\ Degenerate(call[p].ref)) =>
            /\ grid[p] = <<>>
            /\ init[p].kind = "none"
            /\ pc[p] = "done" =>
                 (ret[p].status = "error" /\ ret[p].error = "InvalidGeometryError")

BudgetSafety(p) ==
    LET m == rm[reg[p]]
        stopped == pc[p] \in {"verbose", "return"} \/ (pc[p] = "done" /\ opt[p].started)
    IN
    /\ pc[p] = "loop" =>
         /\ opt[p].iter <= 500
         /\ call[p].kind = "nl" => opt[p].evals <= 500
    /\ stopped =>
         /\ m.stop \in {"Convergence", "MaximumIterations", "MaximumEvaluations"}
         /\ m.stop = "MaximumIterations" => opt[p].iter = 500
         /\ m.stop = "MaximumEvaluations" =>
              (call[p].kind = "nl" /\ opt[p].evals = 500)
         /\ m.stop = "Convergence" => opt[p].iter >= call[p].need
    /\ (pc[p] = "done" /\ opt[p].started) =>
         /\ ret[p].status = "ok"
         /\ ret[p].transform = opt[p].final
         /\ ret[p].transform.iterations = opt[p].iter
         /\ ret[p].transform.kind = m.initial.kind
         /\ IF call[p].verbose
            THEN \E k \in 1..Len(out[p]) : out[p][k].text = m.stop
            ELSE out[p] = <<>>

\* C7: every estimation call ends; the optimizer loop stops on convergence
\* or at 500 iterations (and, for L-BFGS-B, at 500 evaluations); a call whose
\* optimizer ran out of budget returns the transform reached, raises
\* nothing, and shows the stop condition in the verbose output only.
C7_Termination ==
    /\ \A p \in Procs : (pc[p] # "idle") ~> (pc[p] = "done")
    /\ [](\A p \in Procs : Active(p) /\ reg[p] # 0 => BudgetSafety(p))

C7_Witness ==
    \E p \in Procs :
        /\ pc[p] = "done" /\ ret[p].status = "ok" /\ ~call[p].verbose
        /\ rm[reg[p]].stop = "MaximumEvaluations"
        /\ ret[p].transform.iterations = 250

\* C8: two finished calls with identical arguments drew the same samples
\* and returned the same result.
C8_Deterministic ==
    (pc[1] = "done" /\ pc[2] = "done" /\ call[1] = call[2]) =>
        /\ opt[1].drawn = opt[2].drawn
        /\ opt[1].samples = opt[2].samples
        /\ ret[1] = ret[2]

\* the configuration est_lin_transf / est_nl_transf gives its own method
SoloConfig(c) ==
    LET a == IF c.kind = "lin" THEN SetMetricAsMeanSquares(NewMethod)
             ELSE SetMetricAsMattesMutualInformation(NewMethod)
        b == SetInterpolator(SetMetricFixedMask(
                SetMetricSamplingPercentage(SetMetricSamplingStrategy(a)), c.mask))
        d == IF c.kind = "lin"
             THEN SetOptimizerScalesFromPhysicalShift(SetOptimizerAsGradientDescent(b))
             ELSE SetOptimizerAsLBFGSB(b)
        t == IF c.kind = "lin" THEN AffineTransform(c.ref.dim)
             ELSE BSplineTransformInitializer(c.ref, MeshSize(GridSize(c.ref)))
    IN SetInitialTransform(d, t)

RECURSIVE RunLoop(_, _, _)
RunLoop(m, c, o) ==
    IF ShouldStop(m, c, o) THEN o ELSE RunLoop(m, c, IterateOnce(m, c, o))

\* what the call returns when it runs alone and Execute reads seed s
SoloResult(c, s) ==
    LET m == SoloConfig(c)
        o == RunLoop(m, c, [NoOpt EXCEPT !.samples = Samples(m, FixedOf(c), s)])
    IN FinalTransform(m, o)

\* C9: concurrent calls use distinct registration methods, each call
\* executes with the configuration it set itself, and each returns what it
\* returns when run alone.
C9_NoCrossTalk ==
    \A p \in Procs :
        /\ \A q \in Procs \ {p} : reg[p] # 0 => reg[p] # reg[q]
        /\ pc[p] \in {"exec", "loop"} => rm[reg[p]] = SoloConfig(call[p])
        /\ (pc[p] = "done" /\ ret[p].status = "ok") =>
             ret[p].transform = SoloResult(call[p], opt[p].seed)

C9_Witness ==
    /\ pc[1] = "done" /\ pc[2] = "done"
    /\ ret[1].status = "ok" /\ ret[2].status = "ok"
    /\ call[1] # call[2]
    /\ call[1].mask.present /\ ~call[2].mask.present

ParamCount(c) ==
    IF c.kind = "lin" THEN c.ref.dim * (c.ref.dim + 1)
    ELSE c.ref.dim * Product([i \in 1..c.ref.dim |->
            CellCount(c.ref.size[i], c.ref.spacing[i]) + 2])

ApplySizes == {<<2, 2>>, <<3, 1>>, <<1, 2>>}
ApplySpacings == {<<1, 1>>, <<2, 1>>}
ApplyOrigins == {<<0, 0>>, <<-1, 3>>}
ApplyDirections == {<<1, 1>>, <<-1, 1>>}
PixelValues == {4, 8}

ApplyImages ==
    UNION {{PixelImage(sz, sp, org, dir, px) : px \in [Indices(sz) -> PixelValues]} :
              sz \in ApplySizes, sp \in ApplySpacings,
              org \in ApplyOrigins, dir \in ApplyDirections}

\* the reference image of the estimation; never passed to apply
ApplyRefs ==
    {PixelImage(<<4, 4>>, <<1, 1>>, <<0, 0>>, <<1, 1>>,
                [idx \in Indices(<<4, 4>>) |-> 4]),
     PixelImage(<<2, 2>>, <<1, 1>>, <<0, 0>>, <<1, 1>>,
                [idx \in Indices(<<2, 2>>) |-> 8])}

Shifts == {-6, -1, 0, 1, 2}

ApplyTransforms ==
    {AffineMap(<<tx, ty>>) : tx \in Shifts, ty \in Shifts}
    \cup {BSplineMap(<<tx, ty>>, <<-1, -1>>, hi) :
             tx \in Shifts, ty \in {0, 1}, hi \in {<<3, 3>>, <<7, 7>>}}
    \cup {[AffineMap(<<0, 0>>) EXCEPT !.dim = 3]}

EstIdle ==
    /\ call = [p \in Procs |-> IdleCall]
    /\ pc = [p \in Procs |-> "idle"]
    /\ InitLocals

InitApply ==
    /\ \E r \in ApplyRefs, im \in ApplyImages : images = <<r, im>>
    /\ \E x \in ApplyTransforms : xfms = <<x>>
    /\ \E op \in {"apply_lin_transf", "apply_nl_transf"} :
         acall = [op |-> op, im |-> 2, xfm |-> 1]
    /\ apc = "new"
    /\ res = NewResampler
    /\ aret = NoImage
    /\ pre = [images |-> images, xfms |-> xfms]
    /\ EstIdle

SpecApply == InitApply /\ [][NextApply]_vars

(***************************************************************************)
(* Properties of the apply functions.                                       *)
(***************************************************************************)
Geometry(im) ==
    <<im.size, im.spacing, im.origin, im.direction>>

\* C2: the returned image has the size, spacing, origin and direction of
\* the image passed in, not those of the reference image of the estimation.
C2_OutputGrid ==
    (apc = "done" /\ aret.status = "ok") =>
        /\ Geometry(images[aret.id]) = Geometry(pre.images[acall.im])
        /\ DOMAIN images[aret.id].pixels = Indices(pre.images[acall.im].size)
        /\ Geometry(pre.images[1]) # Geometry(pre.images[acall.im]) =>
             Geometry(images[aret.id]) # Geometry(pre.images[1])

C2_Witness ==
    /\ apc = "done" /\ aret.status = "ok"
    /\ images[aret.id].spacing = <<2, 1>>
    /\ images[aret.id].origin = <<-1, 3>>
    /\ images[aret.id].direction = <<-1, 1>>
    /\ images[aret.id].size = <<3, 1>>

\* the output voxel idx reads outside the extent of the source image
MapsOutside(x, src, idx) ==
    LET p2 == TransformPoint(x, IndexToPoint2(src, idx))
        c2 == [a \in 1..2 |->
                 (src.direction[a] * (p2[a] - 2 * src.origin[a])) \div src.spacing[a]]
    IN \E a \in 1..2 : c2[a] < -1 \/ c2[a] >= 2 * src.size[a] - 1

\* C3: every output voxel that reads outside the extent of the source image
\* is 0; when all of them do, the call returns an image that is 0
\* everywhere, without an error.
C3_OutOfDomainFill ==
    LET src == pre.images[acall.im]
        x == pre.xfms[acall.xfm]
    IN (apc = "done" /\ x.dim = 2) =>
        /\ aret.status = "ok"
        /\ \A idx \in Indices(src.size) :
             MapsOutside(x, src, idx) => images[aret.id].pixels[idx] = 0
        /\ (\A idx \in Indices(src.size) : MapsOutside(x, src, idx)) =>
             \A idx \in DOMAIN images[aret.id].pixels :
                 images[aret.id].pixels[idx] = 0

C3_Witness ==
    /\ apc = "done" /\ aret.status = "ok"
    /\ \A idx \in Indices(pre.images[acall.im].size) :
         /\ MapsOutside(pre.xfms[acall.xfm], pre.images[acall.im], idx)
         /\ images[aret.id].pixels[idx] = 0
    /\ \A idx \in Indices(pre.images[acall.im].size) :
         pre.images[acall.im].pixels[idx] = 8

\* C4: through the call and after it the input image and the transform are
\* what they were before it, and the returned image is a new object.
C4_ArgumentsUnchanged ==
    /\ xfms = pre.xfms
    /\ \A id \in DOMAIN pre.images : images[id] = pre.images[id]
    /\ aret.status \in {"pending", "ok"} =>
         (aret.id # acall.im /\ aret.id \notin DOMAIN pre.images
          /\ aret.id \in DOMAIN images)

C4_Witness ==
    /\ apc = "done" /\ aret.status = "ok"
    /\ images[aret.id].pixels # pre.images[acall.im].pixels

====
